---- MODULE Spec2Model ----
(***************************************************************************)
(* COCO JSON -> YOLO converter and train/valid/test splitter.              *)
(*                                                                         *)
(* Two converters are modelled:                                            *)
(*   - the split converter  (split_dataset + coco_to_yolo with ratios),    *)
(*   - the basic converter  (coco2yolo-seg.ipynb, one output directory).   *)
(*                                                                         *)
(* Numbers.  Ratios are exact multiples of 1/RatioScale, so the tolerance  *)
(* test 0.999 <= sum <= 1.001 is RatioScale-1 <= sum <= RatioScale+1 and   *)
(* int(total * r) is (total * r) \div RatioScale.  A normalised            *)
(* coordinate x / w is kept as the pair <<x, w>> (numerator, denominator); *)
(* a zero denominator is never built: the division raises instead.         *)
(*                                                                         *)
(* Random generator.  Python's global generator is a state that            *)
(* random.seed overwrites and every draw advances; it is modelled by a     *)
(* small congruential generator over RngStates states.                     *)
(***************************************************************************)
EXTENDS Integers, Sequences, FiniteSets, TLC

VARIABLES
    rng,             \* state of the process-wide random generator
    coco_data,       \* the parsed COCO document (fixed for a behaviour)
    dirs,            \* directories under output_dir: <<place, subdir>>
    image_files,     \* image files under output_dir: <<place, file_name>>
    label_files,     \* label files: <<place, label_name>> -> sequence of lines
    data_yaml,       \* <<>> or <<the written manifest>>
    args,            \* arguments of the last call
    all_image_ids,   \* list(image_to_annotations.keys()) of the last call
    train_ids,       \* result of split_dataset in the last call
    val_ids,
    test_ids,
    missing_images,  \* missing_images of the last call
    copied_images,   \* copied_images of the last call
    label_writes,    \* label files opened for writing by the last call, in order,
                     \* each with what it held when it was closed
    status,          \* "idle", "done", or the exception that ended the last call
    summary,         \* <<>> or <<the summary printed by the last call>>
    runs,            \* number of converter calls so far
    before,          \* output_dir as it was when the last call started
    rng_drawn,       \* other code drew from the generator since the last call returned
    drawn_before,    \* rng_drawn as it was when the last call started
    visited,         \* image ids whose loop iteration the last call started, in order
    prev             \* <<>> or <<what the call before the last one was given and returned>>

vars == <<rng, coco_data, dirs, image_files, label_files, data_yaml, args,
          all_image_ids, train_ids, val_ids, test_ids, missing_images,
          copied_images, label_writes, status, summary, runs, before, rng_drawn,
          drawn_before, visited, prev>>

-----------------------------------------------------------------------------
(* Bounds of the model *)

MaxAnns == 2        \* annotations of a document
MaxRuns == 2        \* converter calls in a behaviour
MaxIds == 3         \* length of the id list handed to split_dataset directly
RngStates == 4      \* states of the random generator

(* 0.999 and 1.001 are RatioScale-1 and RatioScale+1 thousandths *)
RatioScale == 1000

-----------------------------------------------------------------------------
(* Sequence helpers *)

Range(s) == {s[i] : i \in 1..Len(s)}

IsInjective(s) == \A i, j \in 1..Len(s) : s[i] = s[j] => i = j

Slice(s, lo, hi) ==
    \* Python s[lo:hi] with 0-based lo, hi already clamped by the caller
    IF hi <= lo THEN <<>> ELSE [i \in 1..(hi - lo) |-> s[lo + i]]

Min(a, b) == IF a <= b THEN a ELSE b

Count(s, x) == Cardinality({i \in 1..Len(s) : s[i] = x})

(* The member of a one-element set: Only({F(v) : v \in {e}}) is F(e) with e   *)
(* evaluated once.                                                           *)
Only(S) == CHOOSE x \in S : TRUE

-----------------------------------------------------------------------------
(* random: seed, draw, shuffle *)

(* Variant: the call does not reseed and shuffles from the state it finds *)
random_seed_skipped(seed) == rng

random_seed(seed) == seed % RngStates

NextRng(s) == (5 * s + 3) % RngStates

randbelow(s, n) == NextRng(s) % n

RECURSIVE ShuffleFrom(_, _, _)
ShuffleFrom(x, s, i) ==
    \* for i in reversed(range(1, len(x))): j = randbelow(i+1); swap x[i], x[j]
    \* (i is the 1-based position, so j = randbelow(i) + 1)
    IF i < 2 THEN [list |-> x, rng |-> s]
    ELSE LET j == randbelow(s, i) + 1
             y == [x EXCEPT ![i] = x[j], ![j] = x[i]]
         IN ShuffleFrom(y, NextRng(s), i - 1)

random_shuffle(x, s) == ShuffleFrom(x, s, Len(x))

-----------------------------------------------------------------------------
(* split_dataset *)

RatiosOk(train_ratio, val_ratio, test_ratio) ==
    /\ RatioScale - 1 <= train_ratio + val_ratio + test_ratio
    /\ train_ratio + val_ratio + test_ratio <= RatioScale + 1

(* Variant: round(total * train_ratio) in place of int(...) *)
TrainEndRounded(total, train_ratio) ==
    (2 * total * train_ratio + RatioScale) \div (2 * RatioScale)

TrainEnd(total, train_ratio) == (total * train_ratio) \div RatioScale

ValEnd(total, train_ratio, val_ratio) ==
    (total * (train_ratio + val_ratio)) \div RatioScale

split_dataset(image_ids, train_ratio, val_ratio, test_ratio, s) ==
    IF ~RatiosOk(train_ratio, val_ratio, test_ratio)
    THEN [raised |-> "ValueError", train |-> <<>>, valid |-> <<>>,
          test |-> <<>>, rng |-> s]
    ELSE LET sh == random_shuffle(image_ids, s)
             shuffled_ids == sh.list
             total == Len(shuffled_ids)
             train_end == Min(TrainEnd(total, train_ratio), total)
             val_end == Min(ValEnd(total, train_ratio, val_ratio), total)
         IN [raised |-> "none",
             train |-> Slice(shuffled_ids, 0, train_end),
             valid |-> Slice(shuffled_ids, train_end, val_end),
             test |-> IF test_ratio > 0
                      THEN Slice(shuffled_ids, val_end, total)
                      ELSE <<>>,
             rng |-> sh.rng]

-----------------------------------------------------------------------------
(* The COCO document *)

Categories ==
    << [id |-> 10, name |-> "car"], [id |-> 20, name |-> "door"] >>

(* file_name is <<stem, extension>>, what os.path.splitext separates *)
Images ==
    << [id |-> 1, file_name |-> <<"a", ".jpg">>, width |-> 4, height |-> 2],
       [id |-> 2, file_name |-> <<"b", ".jpg">>, width |-> 2, height |-> 2],
       [id |-> 3, file_name |-> <<"a", ".png">>, width |-> 2, height |-> 4],
       [id |-> 4, file_name |-> <<"z", ".jpg">>, width |-> 0, height |-> 2] >>

(* The annotations a document is drawn from.  Optional keys (segmentation,   *)
(* bbox, iscrowd) are present or absent as in COCO files.                    *)
AnnPool ==
    << [id |-> 1, image_id |-> 1, category_id |-> 10, iscrowd |-> 0,
        segmentation |-> << <<0, 0, 4, 0, 4, 2>> >>, bbox |-> <<0, 0, 4, 2>>],
       [id |-> 2, image_id |-> 1, category_id |-> 20,
        segmentation |-> << <<0, 0, 2, 0, 2, 2>>, <<2, 0, 4, 0, 4, 2>> >>,
        bbox |-> <<0, 0, 4, 2>>],
       [id |-> 3, image_id |-> 2, category_id |-> 10, iscrowd |-> 1,
        segmentation |-> << <<0, 0, 2, 0, 2, 2>> >>, bbox |-> <<0, 0, 2, 2>>],
       [id |-> 4, image_id |-> 2, category_id |-> 20, iscrowd |-> 0,
        segmentation |-> <<>>, bbox |-> <<1, 0, 1, 2>>],
       [id |-> 5, image_id |-> 3, category_id |-> 10, iscrowd |-> 0],
       [id |-> 6, image_id |-> 3, category_id |-> 99, iscrowd |-> 0,
        bbox |-> <<0, 0, 2, 4>>],
       [id |-> 7, image_id |-> 9, category_id |-> 10, iscrowd |-> 0,
        bbox |-> <<0, 0, 1, 1>>],
       [id |-> 8, image_id |-> 4, category_id |-> 10, iscrowd |-> 0,
        bbox |-> <<0, 0, 1, 1>>] >>

RECURSIVE Ascending(_)
Ascending(S) ==
    \* the members of a set of numbers as an increasing sequence
    IF S = {} THEN <<>>
    ELSE LET m == CHOOSE x \in S : \A y \in S : x <= y
         IN <<m>> \o Ascending(S \ {m})

(* Documents: 1..MaxAnns annotations of the pool, in annotation-id order *)
Docs ==
    { [categories |-> Categories,
       images |-> Images,
       annotations |-> [i \in 1..Cardinality(S) |-> AnnPool[Ascending(S)[i]]]] :
      S \in {T \in SUBSET (1..Len(AnnPool)) :
                 Cardinality(T) >= 1 /\ Cardinality(T) <= MaxAnns} }

AllFiles == {Images[i].file_name : i \in 1..Len(Images)}

(* Contents of the source image directory a call may find *)
PresentSets == {AllFiles, AllFiles \ {<<"a", ".jpg">>}}

Seeds == {42, 101}

(* <<train_ratio, val_ratio, test_ratio>> in thousandths *)
RunRatios ==
    { <<800, 200, 0>>, <<500, 499, 0>>, <<600, 200, 200>>, <<500, 300, 100>>,
      <<1000, 0, 0>> }

-----------------------------------------------------------------------------
(* Mappings built from the document *)

HasKey(d, k) ==
    \* category_id_to_index / image_id_to_info membership
    \E i \in 1..Len(d) : d[i].id = k

LastPos(d, k) ==
    \* a dict comprehension keeps the last entry of a repeated key
    CHOOSE i \in 1..Len(d) :
        d[i].id = k /\ \A j \in 1..Len(d) : d[j].id = k => j <= i

category_id_to_index(categories, k) == LastPos(categories, k) - 1

image_id_to_info(images, k) == images[LastPos(images, k)]

RECURSIVE FirstSeen(_, _)
FirstSeen(annotations, seen) ==
    \* keys of image_to_annotations, in insertion order
    IF annotations = <<>> THEN <<>>
    ELSE LET k == Head(annotations).image_id
         IN IF k \in seen
            THEN FirstSeen(Tail(annotations), seen)
            ELSE <<k>> \o FirstSeen(Tail(annotations), seen \cup {k})

ImageIdsOf(doc) == FirstSeen(doc.annotations, {})

image_to_annotations(doc, image_id) ==
    SelectSeq(doc.annotations, LAMBDA a : a.image_id = image_id)

LabelName(file_name) == <<file_name[1], ".txt">>

-----------------------------------------------------------------------------
(* Geometry: one annotation to label lines *)

HasSegmentation(ann) ==
    "segmentation" \in DOMAIN ann /\ ann.segmentation # <<>>

IsCrowd(ann) == IF "iscrowd" \in DOMAIN ann THEN ann.iscrowd ELSE 0

DivRaises(seg, w, h) ==
    \* seg[i] / image_width, seg[i+1] / image_height
    Len(seg) > 0 /\ (w = 0 \/ h = 0)

NormalizedSeg(seg, w, h) ==
    [i \in 1..Len(seg) |-> IF i % 2 = 1 THEN <<seg[i], w>> ELSE <<seg[i], h>>]

RECURSIVE FlatCoords(_, _, _)
FlatCoords(segmentation, w, h) ==
    IF segmentation = <<>> THEN <<>>
    ELSE NormalizedSeg(Head(segmentation), w, h)
             \o FlatCoords(Tail(segmentation), w, h)

RECURSIVE SegLines(_, _, _, _)
SegLines(segmentation, w, h, class_index) ==
    \* split converter: coords is reset and a line written for every polygon
    IF segmentation = <<>> THEN [lines |-> <<>>, raised |-> "none"]
    ELSE IF DivRaises(Head(segmentation), w, h)
    THEN [lines |-> <<>>, raised |-> "ZeroDivisionError"]
    ELSE LET rest == SegLines(Tail(segmentation), w, h, class_index)
         IN [lines |-> << <<class_index>> \o NormalizedSeg(Head(segmentation), w, h) >>
                           \o rest.lines,
             raised |-> rest.raised]

BBoxLine(bbox, w, h, class_index) ==
    \* x_center = (x_min + width/2) / image_width, ... : halves kept exact
    << class_index,
       <<2 * bbox[1] + bbox[3], 2 * w>>,
       <<2 * bbox[2] + bbox[4], 2 * h>>,
       <<bbox[3], w>>,
       <<bbox[4], h>> >>

BBoxLines(ann, w, h, class_index) ==
    IF "bbox" \in DOMAIN ann
    THEN IF w = 0 \/ h = 0
         THEN [lines |-> <<>>, raised |-> "ZeroDivisionError"]
         ELSE [lines |-> << BBoxLine(ann.bbox, w, h, class_index) >>,
               raised |-> "none"]
    ELSE [lines |-> <<>>, raised |-> "none"]

(* Variant: the iscrowd test left out *)
UsesSegmentationOfCrowd(ann) == HasSegmentation(ann)

UsesSegmentation(ann) == HasSegmentation(ann) /\ IsCrowd(ann) = 0

(* Lines of one annotation in the split converter *)
SplitAnnLines(ann, w, h, class_index) ==
    IF UsesSegmentation(ann)
    THEN SegLines(ann.segmentation, w, h, class_index)
    ELSE BBoxLines(ann, w, h, class_index)

(* Lines of one annotation in the basic converter: all polygons on one line *)
BasicAnnLines(ann, w, h, class_index) ==
    IF UsesSegmentation(ann)
    THEN IF \E i \in 1..Len(ann.segmentation) : DivRaises(ann.segmentation[i], w, h)
         THEN [lines |-> <<>>, raised |-> "ZeroDivisionError"]
         ELSE [lines |-> << <<class_index>> \o FlatCoords(ann.segmentation, w, h) >>,
               raised |-> "none"]
    ELSE BBoxLines(ann, w, h, class_index)

AnnLines(kind, ann, w, h, class_index) ==
    IF kind = "split" THEN SplitAnnLines(ann, w, h, class_index)
    ELSE BasicAnnLines(ann, w, h, class_index)

Repeat(x, n) == [i \in 1..n |-> x]

RECURSIVE LabelContent(_, _, _, _, _)
LabelContent(kind, doc, anns, w, h) ==
    \* the body of "with open(label_file_path, 'w')": the lines the file holds
    \* when the block is left, normally or by an exception; ann_ids[i] is the
    \* annotation whose branch wrote lines[i]
    IF anns = <<>> THEN [lines |-> <<>>, ann_ids |-> <<>>, raised |-> "none"]
    ELSE IF ~HasKey(doc.categories, Head(anns).category_id)
    THEN [lines |-> <<>>, ann_ids |-> <<>>, raised |-> "KeyError"]
    ELSE LET one == AnnLines(kind, Head(anns), w, h,
                         category_id_to_index(doc.categories, Head(anns).category_id))
             ids == Repeat(Head(anns).id, Len(one.lines))
         IN IF one.raised # "none"
            THEN [lines |-> one.lines, ann_ids |-> ids, raised |-> one.raised]
            ELSE LET rest == LabelContent(kind, doc, Tail(anns), w, h)
                 IN [lines |-> one.lines \o rest.lines,
                     ann_ids |-> ids \o rest.ann_ids,
                     raised |-> rest.raised]

-----------------------------------------------------------------------------
(* The output directory *)

NoFiles == [p \in {} |-> <<>>]

Put(f, k, v) == [x \in DOMAIN f \cup {k} |-> IF x = k THEN v ELSE f[x]]

create_directory_structure ==
    {<<split, subdir>> : split \in {"train", "valid", "test"},
                         subdir \in {"images", "labels"}}

BasicDirs == {<<".", "labels">>, <<".", "images">>}

(* Variants: the existence tests left out *)
DstExistsNever(place, file_name, files) == FALSE

DstExists(place, file_name, files) == <<place, file_name>> \in files

SrcExistsAlways(file_name, present) == TRUE

SrcExists(file_name, present) == file_name \in present

-----------------------------------------------------------------------------
(* One iteration of the per-image loop.  st carries what the loop changes:    *)
(* image_files, label_files, copied, missing, writes, visited, raised.        *)

WriteLabel(st, kind, doc, place, image_id, info) ==
    LET name == LabelName(info.file_name)
    IN Only({ [st EXCEPT
                 !.label_files = Put(st.label_files, <<place, name>>, c.lines),
                 !.writes = Append(st.writes,
                                   [place |-> place, name |-> name,
                                    image_id |-> image_id, lines |-> c.lines,
                                    ann_ids |-> c.ann_ids,
                                    raised |-> c.raised]),
                 !.raised = c.raised] :
              c \in { LabelContent(kind, doc, image_to_annotations(doc, image_id),
                                   info.width, info.height) } })

SplitImageStep(st, doc, place, image_id, present) ==
    LET v == [st EXCEPT !.visited = Append(st.visited, image_id)]
    IN IF ~HasKey(doc.images, image_id)
       THEN [v EXCEPT !.raised = "KeyError"]
       ELSE LET info == image_id_to_info(doc.images, image_id)
                f == info.file_name
            IN IF SrcExists(f, present)
               THEN IF ~DstExists(place, f, v.image_files)
                    THEN WriteLabel(
                           [v EXCEPT !.image_files = v.image_files \cup {<<place, f>>},
                                     !.copied = Append(v.copied, f)],
                           "split", doc, place, image_id, info)
                    ELSE WriteLabel(v, "split", doc, place, image_id, info)
               ELSE [v EXCEPT !.missing = Append(v.missing, f)]

BasicImageStep(st, doc, place, image_id, present) ==
    LET v == [st EXCEPT !.visited = Append(st.visited, image_id)]
    IN IF ~HasKey(doc.images, image_id)
       THEN [v EXCEPT !.raised = "KeyError"]
       ELSE LET info == image_id_to_info(doc.images, image_id)
                f == info.file_name
            IN IF SrcExists(f, present) /\ ~DstExists(place, f, v.image_files)
               THEN WriteLabel(
                      [v EXCEPT !.image_files = v.image_files \cup {<<place, f>>}],
                      "basic", doc, place, image_id, info)
               ELSE WriteLabel(v, "basic", doc, place, image_id, info)

RECURSIVE ProcessIds(_, _, _, _, _, _)
ProcessIds(st, kind, doc, place, ids, present) ==
    \* an exception leaves the loop: the remaining ids are not visited
    IF ids = <<>> \/ st.raised # "none" THEN st
    ELSE Only({ ProcessIds(nxt, kind, doc, place, Tail(ids), present) :
                nxt \in { IF kind = "split"
                          THEN SplitImageStep(st, doc, place, Head(ids), present)
                          ELSE BasicImageStep(st, doc, place, Head(ids), present) } })

LoopStart ==
    [image_files |-> image_files, label_files |-> label_files,
     copied |-> <<>>, missing |-> <<>>, writes |-> <<>>, visited |-> <<>>,
     raised |-> "none"]

ProcessSplits(doc, sp, present) ==
    \* for split_name, split_ids in splits.items(): train, valid, test
    Only({ ProcessIds(b, "split", doc, "test", sp.test, present) :
           b \in { ProcessIds(a, "split", doc, "valid", sp.valid, present) :
                   a \in { ProcessIds(start, "split", doc, "train", sp.train, present) :
                           start \in {LoopStart} } } })

YamlKeys(test_ratio) ==
    IF test_ratio > 0 THEN <<"train", "val", "test">> ELSE <<"train", "val">>

Names(categories) == [i \in 1..Len(categories) |-> categories[i].name]

Snapshot ==
    [dirs |-> dirs, image_files |-> image_files,
     label_files |-> label_files, data_yaml |-> data_yaml]

LastCall ==
    [args |-> args, status |-> status,
     train |-> train_ids, valid |-> val_ids, test |-> test_ids,
     copied |-> copied_images]

-----------------------------------------------------------------------------
(* The converters *)

Blank ==
    /\ dirs = {}
    /\ image_files = {}
    /\ label_files = NoFiles
    /\ data_yaml = <<>>
    /\ train_ids = <<>>
    /\ val_ids = <<>>
    /\ test_ids = <<>>
    /\ missing_images = <<>>
    /\ copied_images = <<>>
    /\ label_writes = <<>>
    /\ visited = <<>>
    /\ status = "idle"
    /\ summary = <<>>
    /\ runs = 0
    /\ prev = <<>>
    /\ rng_drawn = FALSE
    /\ drawn_before = FALSE
    /\ before = [dirs |-> {}, image_files |-> {},
                 label_files |-> NoFiles, data_yaml |-> <<>>]

Init ==
    /\ rng = 0
    /\ coco_data \in Docs
    /\ args = [kind |-> "none"]
    /\ all_image_ids = <<>>
    /\ Blank

Remember ==
    /\ runs' = runs + 1
    /\ before' = Snapshot
    /\ drawn_before' = rng_drawn
    /\ rng_drawn' = FALSE
    /\ prev' = IF runs = 0 THEN <<>> ELSE <<LastCall>>

(* coco_to_yolo of the split converter, from the call to its return or raise *)
coco_to_yolo(a) ==
    \E ids \in {ImageIdsOf(coco_data)} :
    \E sp \in {split_dataset(ids, a.train_ratio, a.val_ratio, a.test_ratio,
                             random_seed(a.seed))} :
    \E st \in {ProcessSplits(coco_data, sp, a.present)} :
       /\ args' = a
       /\ all_image_ids' = ids
       /\ dirs' = dirs \cup create_directory_structure
       /\ rng' = sp.rng
       /\ train_ids' = sp.train
       /\ val_ids' = sp.valid
       /\ test_ids' = sp.test
       /\ IF sp.raised # "none"
          THEN /\ status' = sp.raised
               /\ missing_images' = <<>>
               /\ copied_images' = <<>>
               /\ label_writes' = <<>>
               /\ visited' = <<>>
               /\ summary' = <<>>
               /\ UNCHANGED <<image_files, label_files, data_yaml>>
          ELSE /\ image_files' = st.image_files
               /\ label_files' = st.label_files
               /\ missing_images' = st.missing
               /\ copied_images' = st.copied
               /\ label_writes' = st.writes
               /\ visited' = st.visited
               /\ IF st.raised # "none"
                  THEN /\ status' = st.raised
                       /\ summary' = <<>>
                       /\ UNCHANGED data_yaml
                  ELSE /\ status' = "done"
                       /\ data_yaml' = << [keys |-> YamlKeys(a.test_ratio),
                                           nc |-> Len(coco_data.categories),
                                           names |-> Names(coco_data.categories)] >>
                       /\ summary' = << [train |-> Len(sp.train),
                                         valid |-> Len(sp.valid),
                                         test |-> IF a.test_ratio > 0
                                                  THEN <<Len(sp.test)>> ELSE <<>>,
                                         copied |-> Len(st.copied),
                                         missing |-> st.missing] >>

RunSplitConverter ==
    /\ runs < MaxRuns
    /\ \E r \in RunRatios, seed \in Seeds, present \in PresentSets :
          coco_to_yolo([kind |-> "split", train_ratio |-> r[1], val_ratio |-> r[2],
                        test_ratio |-> r[3], seed |-> seed, present |-> present])
    /\ Remember
    /\ UNCHANGED coco_data

(* coco_to_yolo of the basic converter (coco2yolo-seg.ipynb) *)
coco_to_yolo_basic(a) ==
    \E ids \in {ImageIdsOf(coco_data)} :
    \E st \in {ProcessIds(LoopStart, "basic", coco_data, ".", ids, a.present)} :
       /\ args' = a
       /\ all_image_ids' = ids
       /\ dirs' = dirs \cup BasicDirs
       /\ image_files' = st.image_files
       /\ label_files' = st.label_files
       /\ label_writes' = st.writes
       /\ visited' = st.visited
       /\ missing_images' = <<>>
       /\ copied_images' = <<>>
       /\ train_ids' = <<>>
       /\ val_ids' = <<>>
       /\ test_ids' = <<>>
       /\ IF st.raised # "none"
          THEN /\ status' = st.raised
               /\ summary' = <<>>
               /\ UNCHANGED data_yaml
          ELSE /\ status' = "done"
               /\ data_yaml' = << [keys |-> <<"train", "val", "test">>,
                                   nc |-> Len(coco_data.categories),
                                   names |-> Names(coco_data.categories)] >>
               /\ summary' = << [text |-> "Conversion completed successfully."] >>

RunBasicConverter ==
    /\ runs < MaxRuns
    /\ \E present \in PresentSets :
          coco_to_yolo_basic([kind |-> "basic", present |-> present])
    /\ Remember
    /\ UNCHANGED <<coco_data, rng>>

(* Anything else in the process that draws from the global generator *)
OtherRandomUse ==
    /\ runs < MaxRuns
    /\ rng' = NextRng(rng)
    /\ rng_drawn' = TRUE
    /\ UNCHANGED <<coco_data, dirs, image_files, label_files, data_yaml, args,
                   all_image_ids, train_ids, val_ids, test_ids, missing_images,
                   copied_images, label_writes, status, summary, runs, before,
                   drawn_before, visited, prev>>

Next == RunSplitConverter \/ RunBasicConverter \/ OtherRandomUse

Spec == Init /\ [][Next]_vars

-----------------------------------------------------------------------------
(* split_dataset called directly, on inputs drawn from bounded sets *)

RatioValues == {0, 100, 200, 300, 499, 500, 600, 800, 1000}

IdLists ==
    UNION { {s \in [1..n -> 1..MaxIds] : IsInjective(s)} : n \in 0..MaxIds }

SplitInit ==
    /\ coco_data = [categories |-> <<>>, images |-> <<>>, annotations |-> <<>>]
    /\ all_image_ids \in IdLists
    /\ args \in [kind : {"direct"}, train_ratio : RatioValues,
                 val_ratio : RatioValues, test_ratio : RatioValues,
                 generator : 0..(RngStates - 1)]
    /\ rng = args.generator
    /\ Blank

CallSplitDataset ==
    /\ status = "idle"
    /\ \E sp \in {split_dataset(all_image_ids, args.train_ratio, args.val_ratio,
                                 args.test_ratio, rng)} :
          /\ rng' = sp.rng
          /\ train_ids' = sp.train
          /\ val_ids' = sp.valid
          /\ test_ids' = sp.test
          /\ status' = IF sp.raised # "none" THEN sp.raised ELSE "done"
    /\ runs' = runs + 1
    /\ UNCHANGED <<coco_data, dirs, image_files, label_files, data_yaml, args,
                   all_image_ids, missing_images, copied_images, label_writes,
                   summary, before, rng_drawn, drawn_before, visited, prev>>

SplitSpec == SplitInit /\ [][CallSplitDataset]_vars

-----------------------------------------------------------------------------
(* Vocabulary of the properties *)

SplitOrder == train_ids \o val_ids \o test_ids

Known(image_id) == \E i \in 1..Len(coco_data.images) : coco_data.images[i].id = image_id

FileOf(image_id) ==
    (CHOOSE i \in 1..Len(coco_data.images) : coco_data.images[i].id = image_id)

FileName(image_id) == coco_data.images[FileOf(image_id)].file_name

AnnById(k) ==
    coco_data.annotations[CHOOSE i \in 1..Len(coco_data.annotations) :
                              coco_data.annotations[i].id = k]

ClassOf(ann) ==
    (CHOOSE i \in 1..Len(coco_data.categories) :
         coco_data.categories[i].id = ann.category_id) - 1

Floor(num, den) == CHOOSE k \in 0..num : k * den <= num /\ num < (k + 1) * den

SameSplitInputs(a, b) ==
    /\ a.kind = "split" /\ b.kind = "split"
    /\ a.train_ratio = b.train_ratio /\ a.val_ratio = b.val_ratio
    /\ a.test_ratio = b.test_ratio /\ a.seed = b.seed

OutputUntouched ==
    /\ dirs = before.dirs
    /\ image_files = before.image_files
    /\ label_files = before.label_files
    /\ data_yaml = before.data_yaml
    /\ label_writes = <<>>
    /\ copied_images = <<>>

OutputWasEmpty ==
    /\ before.dirs = {}
    /\ before.image_files = {}
    /\ before.label_files = NoFiles
    /\ before.data_yaml = <<>>

MissingSrc(image_id) == Known(image_id) /\ FileName(image_id) \notin args.present

CrowdWithBoth(ann) ==
    /\ "iscrowd" \in DOMAIN ann /\ ann.iscrowd = 1
    /\ "segmentation" \in DOMAIN ann /\ ann.segmentation # <<>>
    /\ "bbox" \in DOMAIN ann

BadReference ==
    \E i \in 1..Len(coco_data.annotations) :
        \/ ~Known(coco_data.annotations[i].image_id)
        \/ ~\E c \in 1..Len(coco_data.categories) :
               coco_data.categories[c].id = coco_data.annotations[i].category_id

Usable(ann) ==
    \/ ("segmentation" \in DOMAIN ann /\ ann.segmentation # <<>>
          /\ (IF "iscrowd" \in DOMAIN ann THEN ann.iscrowd ELSE 0) = 0)
    \/ "bbox" \in DOMAIN ann

UsableIdsOf(image_id) ==
    LET mine == SelectSeq(coco_data.annotations,
                          LAMBDA a : a.image_id = image_id /\ Usable(a))
    IN [i \in 1..Len(mine) |-> mine[i].id]

RECURSIVE TotalLen(_)
TotalLen(polygons) ==
    IF polygons = <<>> THEN 0 ELSE Len(Head(polygons)) + TotalLen(Tail(polygons))

ZeroDimension(image_id) ==
    /\ Known(image_id)
    /\ (coco_data.images[FileOf(image_id)].width = 0
          \/ coco_data.images[FileOf(image_id)].height = 0)

-----------------------------------------------------------------------------
(* C1: every id handed to split_dataset comes back in exactly one of train,  *)
(* valid, test, exactly once, whenever the ratios pass the sum check.        *)
C1_PartitionComplete ==
    (args.kind = "direct" /\ status = "done") =>
        /\ \A id \in Range(all_image_ids) : Count(SplitOrder, id) = 1
        /\ Range(SplitOrder) \subseteq Range(all_image_ids)

(* C10: train is the first floor(total * train_ratio) elements of the        *)
(* shuffled sequence, valid runs from there up to                            *)
(* floor(total * (train_ratio + val_ratio)), test is the rest when           *)
(* test_ratio > 0 and empty otherwise; an empty id list gives three empty    *)
(* lists; the only error is the ratio sum check.                             *)
C10_SplitByCumulativeCount ==
    (args.kind = "direct" /\ status # "idle") =>
        LET total == Len(all_image_ids)
            shuffled == random_shuffle(all_image_ids, args.generator).list
            k == Floor(total * args.train_ratio, RatioScale)
            m == Floor(total * (args.train_ratio + args.val_ratio), RatioScale)
            sum == args.train_ratio + args.val_ratio + args.test_ratio
        IN /\ status = "ValueError" <=> (sum < RatioScale - 1 \/ sum > RatioScale + 1)
           /\ status \in {"done", "ValueError"}
           /\ status = "done" =>
                /\ Len(train_ids) = k
                /\ \A i \in 1..k : train_ids[i] = shuffled[i]
                /\ Len(val_ids) = m - k
                /\ \A i \in 1..(m - k) : val_ids[i] = shuffled[k + i]
                /\ args.test_ratio > 0 =>
                     /\ Len(test_ids) = total - m
                     /\ \A i \in 1..(total - m) : test_ids[i] = shuffled[m + i]
                /\ args.test_ratio = 0 => test_ids = <<>>
                /\ total = 0 => train_ids = <<>> /\ val_ids = <<>> /\ test_ids = <<>>

C10_Witness ==
    /\ args.kind = "direct" /\ status = "done"
    /\ Len(train_ids) >= 1 /\ Len(val_ids) >= 1 /\ Len(test_ids) >= 1
    /\ train_ids[1] # all_image_ids[1]

-----------------------------------------------------------------------------
(* C2: two calls of the split converter on the same document with the same   *)
(* ratios and the same seed return the same train, valid and test lists,     *)
(* whatever drew from the generator before either call.                      *)
C2_SplitDeterministic ==
    (prev # <<>> /\ args.kind = "split" /\ prev[1].args.kind = "split") =>
        (SameSplitInputs(args, prev[1].args) =>
            /\ train_ids = prev[1].train
            /\ val_ids = prev[1].valid
            /\ test_ids = prev[1].test
            /\ (status = "ValueError") = (prev[1].status = "ValueError"))

C2_Witness ==
    /\ prev # <<>> /\ args.kind = "split" /\ prev[1].args.kind = "split"
    /\ SameSplitInputs(args, prev[1].args)
    /\ drawn_before
    /\ args.present # prev[1].args.present
    /\ Len(train_ids) >= 1 /\ Len(val_ids) >= 1

(* C3: in the split converter an image whose source file is absent gets no   *)
(* label written in this call and is listed in missing_images; it never      *)
(* ends the call: the loop goes on to the next image, and a call that        *)
(* returns has visited every image of the three lists and written            *)
(* data.yaml and the summary.                                                *)
C3_MissingImageSkipped ==
    (args.kind = "split" /\ status \notin {"idle", "ValueError"}) =>
        /\ \A i \in 1..Len(visited) :
              MissingSrc(visited[i]) =>
                 /\ FileName(visited[i]) \in Range(missing_images)
                 /\ \A j \in 1..Len(label_writes) :
                        label_writes[j].image_id # visited[i]
                 /\ (i < Len(visited) \/ status = "done")
        /\ status = "done" =>
              /\ visited = SplitOrder
              /\ data_yaml # <<>>
              /\ summary # <<>>
              /\ summary[1].missing = missing_images

C3_Witness ==
    /\ args.kind = "split" /\ status = "done"
    /\ \E i \in 1..Len(visited) :
          /\ MissingSrc(visited[i])
          /\ \E j \in 1..Len(label_writes) :
                \E n \in (i + 1)..Len(visited) :
                    label_writes[j].image_id = visited[n]

(* C4: with test_ratio = 0, a call of the split converter that returns, on   *)
(* an output directory that was empty, leaves no test directory and no test  *)
(* key in data.yaml.                                                         *)
C4_NoTestOutput ==
    (args.kind = "split" /\ status = "done" /\ args.test_ratio = 0
       /\ OutputWasEmpty) =>
        /\ \A d \in dirs : d[1] # "test"
        /\ \A i \in 1..Len(data_yaml[1].keys) : data_yaml[1].keys[i] # "test"

(* C5: a second call of the split converter with the arguments of the call   *)
(* before it leaves every image file and every label file as the first call  *)
(* left them, and copies no image.                                           *)
C5_RerunIdempotent ==
    (prev # <<>> /\ args.kind = "split" /\ prev[1].args.kind = "split") =>
        (prev[1].args = args =>
            /\ image_files = before.image_files
            /\ label_files = before.label_files
            /\ dirs = before.dirs
            /\ copied_images = <<>>)

C5_Witness ==
    /\ prev # <<>> /\ args.kind = "split" /\ prev[1].args.kind = "split"
    /\ prev[1].args = args
    /\ status = "done"
    /\ Len(prev[1].copied) >= 2
    /\ Len(label_writes) >= 2

C7_RatioErrorBeforeWork ==
    (args.kind = "split" /\ status # "idle"
       /\ ~RatiosOk(args.train_ratio, args.val_ratio, args.test_ratio)) =>
        /\ status = "ValueError"
        /\ OutputUntouched

(* C8: when an annotation names an image id or a category id the document    *)
(* does not define, the split converter raises, and at that moment the call  *)
(* has created no directory, copied no image and written no label file and   *)
(* no data.yaml.                                                             *)
C8_BadReferenceAbortsBeforeOutput ==
    (args.kind = "split" /\ status # "idle" /\ BadReference
       /\ RatiosOk(args.train_ratio, args.val_ratio, args.test_ratio)) =>
        /\ status \notin {"idle", "done"}
        /\ OutputUntouched

(* C9: a label file that was written completely holds exactly one line per   *)
(* annotation of its image that has a usable segmentation or a bbox, in the  *)
(* order of the annotation list; the line of an annotation given by several  *)
(* polygons carries the coordinates of all of them; the file is empty when   *)
(* no annotation yields a line.                                              *)
C9_OneLinePerAnnotation ==
    \A j \in 1..Len(label_writes) :
        LET w == label_writes[j]
        IN w.raised = "none" =>
              /\ w.ann_ids = UsableIdsOf(w.image_id)
              /\ \A n \in 1..Len(w.lines) :
                    LET ann == AnnById(w.ann_ids[n])
                    IN ("segmentation" \in DOMAIN ann /\ ann.segmentation # <<>>
                          /\ (IF "iscrowd" \in DOMAIN ann THEN ann.iscrowd ELSE 0) = 0) =>
                            Len(w.lines[n]) = 1 + TotalLen(ann.segmentation)

(* C11: an image of width 0 or height 0 does not end the call of the split   *)
(* converter: the call returns, having visited every image of the three      *)
(* lists and written data.yaml, and no label line holds a value divided by   *)
(* zero.                                                                     *)
C11_ZeroDimensionConfined ==
    (args.kind = "split" /\ status \notin {"idle", "ValueError"} /\ ~BadReference
       /\ \E i \in 1..Len(visited) :
             /\ ZeroDimension(visited[i])
             /\ FileName(visited[i]) \in args.present) =>
        /\ status = "done"
        /\ visited = SplitOrder
        /\ data_yaml # <<>>
        /\ \A j \in 1..Len(label_writes) :
              \A n \in 1..Len(label_writes[j].lines) :
                 \A t \in 2..Len(label_writes[j].lines[n]) :
                    label_writes[j].lines[n][t][2] # 0

(* C12: within one call of the split converter no label path is opened for   *)
(* writing twice; the label name is the image file name with its extension   *)
(* replaced by .txt; the label files are written one after the other in the  *)
(* order the images are visited, and a file written completely holds what   *)
(* its one write put there.                                                  *)
C12_LabelWrittenOnce ==
    args.kind = "split" =>
        /\ \A i, j \in 1..Len(label_writes) :
              (label_writes[i].place = label_writes[j].place
                 /\ label_writes[i].name = label_writes[j].name) => i = j
        /\ \A j \in 1..Len(label_writes) :
              /\ label_writes[j].name = <<FileName(label_writes[j].image_id)[1], ".txt">>
              /\ label_files[<<label_writes[j].place, label_writes[j].name>>]
                    = label_writes[j].lines
        /\ \A i, j \in 1..Len(label_writes) :
              i < j => \E m, n \in 1..Len(visited) :
                          /\ m < n
                          /\ visited[m] = label_writes[i].image_id
                          /\ visited[n] = label_writes[j].image_id

(* C13: after any sequence of calls of either converter that starts from an  *)
(* empty output directory, every label file in a labels directory has the    *)
(* image it labels in the images directory beside it.                        *)
C13_NoOrphanLabel ==
    \A p \in DOMAIN label_files :
        \E f \in image_files :
            /\ f[1] = p[1]
            /\ <<f[2][1], ".txt">> = p[2]

====
